---- MODULE Spec2Model ----
(***************************************************************************)
(* The in-memory user Store (InMemoryUserRepository) and its callers.      *)
(*                                                                         *)
(* Goroutines call Create / GetByID / List / Update / Delete on one Store. *)
(* Every shared-memory access of an operation is one step: the atomic      *)
(* increment of autoIncID, the read of the clock, the acquisition of the   *)
(* RWMutex and the critical section, which ends with the deferred unlock   *)
(* and the return.  Records live on a heap: the map holds pointers, and a  *)
(* returned pointer is either a pointer to a heap cell (an alias) or a     *)
(* pointer to a private copy.  A caller may write the fields of a record   *)
(* it was handed (Mutate), as the repository's own tests do.               *)
(***************************************************************************)
EXTENDS Integers, Sequences, FiniteSets, TLC

\* ---- bounds ----
NumProcs  == 2     \* goroutines calling the Store concurrently
MaxOps    == 3     \* calls made in a concurrent workload
MaxSeqOps == 4     \* calls made in a single-goroutine workload
MaxID     == 2     \* ids the callers ask for are 1..MaxID
MaxClock  == 2     \* the clock reads 1 to MaxClock
MaxMut    == 1     \* caller writes into records they were handed
MaxReqs   == 3     \* HTTP requests served in an HTTP workload
MaxFairOps == 2    \* calls made in a workload checked under fair scheduling
MaxHeldOps == 3    \* calls made in a workload whose callers hold on to their inputs

Procs == 1..NumProcs
IDs   == 1..MaxID

\* ---- domain.User ----
Nil == [nil |-> TRUE]

User(id, n, e, c, u) ==
  [ID |-> id, Name |-> n, Email |-> e, CreatedAt |-> c, UpdatedAt |-> u]

Fields == {"ID", "Name", "Email", "CreatedAt", "UpdatedAt"}

\* Arguments the callers pass.  Time 0 is Go's zero time.Time; the clock
\* starts at 1.  Each goroutine passes its own name and email, and fills the
\* fields Create is to overwrite with values of its own.
CreateInputs(p) ==
  {Nil, User(1, <<"name", p>>, <<"email", p>>, MaxClock + 1, MaxClock + 1)}

UpdateInputs(p) ==
  {Nil} \cup {User(i, <<"new", p>>, <<"new@", p>>, 0, 0) : i \in IDs}

\* The values a caller writes into field f of a record it was handed.
MutVals(f) ==
  CASE f = "ID" -> {0}
    [] f \in {"Name", "Email"} -> {<<"x", 0>>}
    [] OTHER -> {0, MaxClock + 1}

\* The argument of GetByID(id) and Delete(id).
Key(i) == [ID |-> i]

\* ---- pointers handed to callers ----
Ref(a) == [alias |-> TRUE,  addr |-> a, rec |-> Nil]   \* pointer to heap cell a
Own(r) == [alias |-> FALSE, addr |-> 0, rec |-> r]     \* pointer to a private copy

NoRet == [op |-> "", err |-> "", ptrs |-> <<>>]

\* No request being served, no response written yet.
NoReq  == [route |-> ""]
NoResp == [route |-> "", status |-> 0, error |-> "", failed |-> "",
           kind |-> "", users |-> <<>>]
Ret(op, err, ptrs) == [op |-> op, err |-> err, ptrs |-> ptrs]

ErrNilUser  == "nil user"
ErrNotFound == "user not found"
ErrRequired == "name and email are required"

VARIABLES
  autoIncID,   \* r.autoIncID
  users,       \* r.users: key -> heap address
  heap,        \* heap cells allocated by Create (sequence of User)
  writer,      \* r.mu: the goroutine holding the write lock, 0 if none
  readers,     \* r.mu: the goroutines holding a read lock
  clock,       \* the latest reading of time.Now()
  pc,          \* position of each goroutine
  arg,         \* the argument of the call in progress
  id,          \* Create's local id
  now,         \* Create's local now
  ret,         \* the result of each goroutine's last completed call
  env,         \* the workload: who calls, how many calls, whether calls are logged,
               \* whether callers hold on to their inputs
  nmut,        \* number of caller writes so far
  nops,        \* number of calls so far
  issued,      \* history: [id, before] of each successful Create, in return order
  returned,    \* history: id -> the record value Create returned
  deleted,     \* history: ids of successful Deletes
  updated,     \* history: ids of successful Updates
  written,     \* history: id -> the name and email of its latest successful Update
  floor,       \* history: per goroutine, the ids returned before its Create began
  overlapped,  \* history: some Create was invoked while another was running
  nev,         \* history: number of logged invocation and return events
  inv,         \* history: per goroutine, the event number of its invocation
  log,         \* history: the completed calls with their results and event numbers
  req,         \* per goroutine, the HTTP request its handler is serving
  resp,        \* per goroutine, the last HTTP response its handler wrote
  input,       \* per goroutine, the record it passed to Create or Update and still holds
  kept         \* the stored cells that are a caller's input record: <<address, goroutine>>

vars == <<autoIncID, users, heap, writer, readers, clock, pc, arg, id, now, ret,
          env, nmut, nops, issued, returned, deleted, updated, written, floor,
          overlapped, nev, inv, log, req, resp, input, kept>>

store  == <<autoIncID, users, heap>>
lock   == <<writer, readers>>
locals == <<arg, id, now>>
world  == <<clock, env>>
hist   == <<issued, returned, deleted, updated, written, floor, overlapped>>
events == <<nev, inv, log>>
front  == <<req, resp>>
callers == <<input, kept>>

Range(s) == {s[i] : i \in DOMAIN s}

InCreate(p) == pc[p] \in {"c_alloc", "c_now", "c_lock", "c_insert"}

\* What the Store holds: key -> record value.
StoreView == [k \in DOMAIN users |-> heap[users[k]]]

\* The value a held pointer points to.
Deref(ptr) == IF ptr.alias THEN heap[ptr.addr] ELSE ptr.rec

\* ---- workloads ----
Concurrent == [procs |-> Procs, maxops |-> MaxOps,    record |-> FALSE, hold |-> FALSE]
Sequential == [procs |-> {1},   maxops |-> MaxSeqOps, record |-> FALSE, hold |-> FALSE]
Logged     == [procs |-> Procs, maxops |-> MaxOps,    record |-> TRUE, hold |-> FALSE]
Http       == [procs |-> Procs, maxops |-> MaxReqs,   record |-> FALSE, hold |-> FALSE]
Contended  == [procs |-> Procs, maxops |-> MaxFairOps, record |-> FALSE, hold |-> FALSE]
Holding    == [procs |-> Procs, maxops |-> MaxHeldOps, record |-> FALSE, hold |-> TRUE]

\* NewInMemoryUserRepository()
NewStore ==
  /\ autoIncID = 0
  /\ users = <<>>
  /\ heap = <<>>
  /\ writer = 0
  /\ readers = {}
  /\ clock = 1
  /\ pc = [p \in Procs |-> "idle"]
  /\ arg = [p \in Procs |-> Nil]
  /\ id = [p \in Procs |-> 0]
  /\ now = [p \in Procs |-> 0]
  /\ ret = [p \in Procs |-> NoRet]
  /\ nmut = 0
  /\ nops = 0
  /\ issued = <<>>
  /\ returned = <<>>
  /\ deleted = {}
  /\ updated = {}
  /\ written = <<>>
  /\ floor = [p \in Procs |-> {}]
  /\ overlapped = FALSE
  /\ nev = 0
  /\ inv = [p \in Procs |-> 0]
  /\ log = <<>>
  /\ req = [p \in Procs |-> NoReq]
  /\ resp = [p \in Procs |-> NoResp]
  /\ input = [p \in Procs |-> Nil]
  /\ kept = {}

Init == NewStore /\ env \in {Concurrent, Sequential}

InitLogged == NewStore /\ env = Logged

InitHTTP == NewStore /\ env = Http

InitFair == NewStore /\ env = Contended

InitHeld == NewStore /\ env = Holding

\* ---- the log of calls ----
\* What a caller observes of a returned record.
Seen(r) == [ID |-> r.ID, Name |-> r.Name, Email |-> r.Email]

Entry(p, op, a, err, vals, i, r) ==
  [p |-> p, op |-> op, arg |-> a, err |-> err, vals |-> vals, inv |-> i, ret |-> r]

\* The call begins.
Invoke(p) ==
  /\ nev' = IF env.record THEN nev + 1 ELSE nev
  /\ inv' = [inv EXCEPT ![p] = nev']
  /\ log' = log

\* The call returns err and the records vals.
Complete(p, op, a, err, vals) ==
  /\ nev' = IF env.record THEN nev + 1 ELSE nev
  /\ inv' = [inv EXCEPT ![p] = 0]
  /\ log' = IF env.record
              THEN Append(log, Entry(p, op, a, err, vals, inv[p], nev'))
              ELSE log

\* The call begins and returns at once (the nil check).
InvokeComplete(p, op, a, err) ==
  /\ nev' = IF env.record THEN nev + 2 ELSE nev
  /\ inv' = inv
  /\ log' = IF env.record
              THEN Append(log, Entry(p, op, a, err, {}, nev + 1, nev + 2))
              ELSE log

\* ---- sync.RWMutex ----
CanLock  == writer = 0 /\ readers = {}

\* A read lock that is granted while a writer holds the lock.
CanRLockAlways == TRUE

CanRLock == writer = 0

\* A goroutine that is not inside a call makes the next one.
Call(p) ==
  /\ p \in env.procs
  /\ pc[p] = "idle"
  /\ nops < env.maxops
  /\ nops' = nops + 1

\* The caller passes u, letting go of the input of its previous call; in the
\* workload Holding it holds on to u after the call.
Pass(p, u) ==
  /\ input' = [input EXCEPT ![p] = IF env.hold THEN u ELSE Nil]
  /\ kept' = {k \in kept : k[2] # p}

\* ---- Create ----
\* A Create that takes its id before it looks at its argument.
CreateCallCounts(p, u) ==
  /\ Call(p)
  /\ Pass(p, u)
  /\ autoIncID' = autoIncID + 1
  /\ IF u = Nil
       THEN /\ ret' = [ret EXCEPT ![p] = Ret("Create", ErrNilUser, <<>>)]
            /\ InvokeComplete(p, "Create", Nil, ErrNilUser)
            /\ UNCHANGED <<pc, arg, id, floor, overlapped>>
       ELSE /\ pc' = [pc EXCEPT ![p] = "c_now"]
            /\ id' = [id EXCEPT ![p] = autoIncID']
            /\ arg' = [arg EXCEPT ![p] = u]
            /\ ret' = [ret EXCEPT ![p] = NoRet]
            /\ floor' = [floor EXCEPT ![p] = {issued[k].id : k \in DOMAIN issued}]
            /\ overlapped' = (overlapped \/ \E q \in Procs : InCreate(q))
            /\ Invoke(p)
  /\ UNCHANGED <<front, users, heap, lock, world, now, nmut,
                 issued, returned, deleted, updated, written>>

\* user == nil check, callers' entry into Create.
CreateCall(p, u) ==
  /\ Call(p)
  /\ Pass(p, u)
  /\ IF u = Nil
       THEN /\ ret' = [ret EXCEPT ![p] = Ret("Create", ErrNilUser, <<>>)]
            /\ InvokeComplete(p, "Create", Nil, ErrNilUser)
            /\ UNCHANGED <<pc, arg, floor, overlapped>>
       ELSE /\ pc' = [pc EXCEPT ![p] = "c_alloc"]
            /\ arg' = [arg EXCEPT ![p] = u]
            /\ ret' = [ret EXCEPT ![p] = NoRet]
            /\ floor' = [floor EXCEPT ![p] = {issued[k].id : k \in DOMAIN issued}]
            /\ overlapped' = (overlapped \/ \E q \in Procs : InCreate(q))
            /\ Invoke(p)
  /\ UNCHANGED <<front, store, lock, world, id, now, nmut,
                 issued, returned, deleted, updated, written>>

\* A Create that numbers its record by the size of the map.
CreateAllocByLen(p) ==
  /\ pc[p] = "c_alloc"
  /\ autoIncID' = autoIncID + 1
  /\ id' = [id EXCEPT ![p] = Cardinality(DOMAIN users) + 1]
  /\ pc' = [pc EXCEPT ![p] = "c_now"]
  /\ UNCHANGED <<front, callers, users, heap, lock, world, arg, now, ret, nmut, nops, hist, events>>

\* A Create that takes its id only while nobody holds the lock.
CreateAllocLocked(p) ==
  /\ pc[p] = "c_alloc"
  /\ CanLock
  /\ autoIncID' = autoIncID + 1
  /\ id' = [id EXCEPT ![p] = autoIncID']
  /\ pc' = [pc EXCEPT ![p] = "c_now"]
  /\ UNCHANGED <<front, callers, users, heap, lock, world, arg, now, ret, nmut, nops, hist, events>>

\* A Create that advances the counter by two.
CreateAllocTwice(p) ==
  /\ pc[p] = "c_alloc"
  /\ autoIncID' = autoIncID + 2
  /\ id' = [id EXCEPT ![p] = autoIncID']
  /\ pc' = [pc EXCEPT ![p] = "c_now"]
  /\ UNCHANGED <<front, callers, users, heap, lock, world, arg, now, ret, nmut, nops, hist, events>>

\* id := atomic.AddInt64(&r.autoIncID, 1)
CreateAlloc(p) ==
  /\ pc[p] = "c_alloc"
  /\ autoIncID' = autoIncID + 1
  /\ id' = [id EXCEPT ![p] = autoIncID']
  /\ pc' = [pc EXCEPT ![p] = "c_now"]
  /\ UNCHANGED <<front, callers, users, heap, lock, world, arg, now, ret, nmut, nops, hist, events>>

\* time.Now(): a reading of a clock that never goes backwards.
TimeNow(t) ==
  /\ t \in clock..MaxClock
  /\ clock' = t

\* now := time.Now().UTC()
CreateNow(p) ==
  /\ pc[p] = "c_now"
  /\ \E t \in 1..MaxClock :
       /\ TimeNow(t)
       /\ now' = [now EXCEPT ![p] = t]
  /\ pc' = [pc EXCEPT ![p] = "c_lock"]
  /\ UNCHANGED <<front, callers, store, lock, env, arg, id, ret, nmut, nops, hist, events>>

\* r.mu.Lock()
CreateLock(p) ==
  /\ pc[p] = "c_lock"
  /\ CanLock
  /\ writer' = p
  /\ pc' = [pc EXCEPT ![p] = "c_insert"]
  /\ UNCHANGED <<front, callers, store, readers, world, locals, ret, nmut, nops, hist, events>>

\* A copy that keeps the id its input carries.
NewRecordKeepsID(user, i, t) ==
  [user EXCEPT !.CreatedAt = t, !.UpdatedAt = t]

\* copy := *user; copy.ID = id; copy.CreatedAt = now; copy.UpdatedAt = now
NewRecord(user, i, t) ==
  [user EXCEPT !.ID = i, !.CreatedAt = t, !.UpdatedAt = t]

\* A Create that stores the caller's own record.
CreateKeepsInput(a, p) == {<<a, p>>}

\* The input records the stored cell at address a is: none, `copy := *user`
\* makes the cell a new record and `r.users[id] = &copy` stores that one.
CreateKeeps(a, p) == {}

\* The pointer Create returns for the new cell at address a holding r:
\* `return &copy`, the very pointer `r.users[id] = &copy` stored.
CreateResult(a, r) == Ref(a)

\* r.users[id] = &copy; return &copy, nil (and the deferred Unlock)
CreateInsert(p) ==
  /\ pc[p] = "c_insert"
  /\ LET r == NewRecord(arg[p], id[p], now[p])
         a == Len(heap) + 1
     IN /\ heap' = Append(heap, r)
        /\ users' = (id[p] :> a) @@ users
        /\ ret' = [ret EXCEPT ![p] = Ret("Create", "", <<CreateResult(a, r)>>)]
        /\ issued' = Append(issued, [id |-> id[p], before |-> floor[p]])
        /\ returned' = (id[p] :> r) @@ returned
        /\ kept' = kept \cup CreateKeeps(a, p)
        /\ Complete(p, "Create", arg[p], "", {Seen(r)})
  /\ writer' = 0
  /\ pc' = [pc EXCEPT ![p] = "idle"]
  /\ arg' = [arg EXCEPT ![p] = Nil]
  /\ id' = [id EXCEPT ![p] = 0]
  /\ now' = [now EXCEPT ![p] = 0]
  /\ floor' = [floor EXCEPT ![p] = {}]
  /\ UNCHANGED <<front, input, autoIncID, readers, world, nmut, nops, deleted, updated,
                 written, overlapped>>

\* ---- GetByID ----
GetByIDCall(p, i) ==
  /\ Call(p)
  /\ pc' = [pc EXCEPT ![p] = "g_rlock"]
  /\ arg' = [arg EXCEPT ![p] = Key(i)]
  /\ ret' = [ret EXCEPT ![p] = NoRet]
  /\ Invoke(p)
  /\ UNCHANGED <<front, callers, store, lock, world, id, now, nmut, hist>>

\* r.mu.RLock()
GetByIDRLock(p) ==
  /\ pc[p] = "g_rlock"
  /\ CanRLock
  /\ readers' = readers \cup {p}
  /\ pc' = [pc EXCEPT ![p] = "g_read"]
  /\ UNCHANGED <<front, callers, store, writer, world, locals, ret, nmut, nops, hist, events>>

\* A GetByID that hands out the stored pointer.
GetByIDResultAlias(a) == Ref(a)

\* The pointer GetByID returns for the cell at address a:
\* copy := *u; return &copy
GetByIDResult(a) == Own(heap[a])

\* u, ok := r.users[id]; if !ok { return NotFound }; (and the deferred RUnlock)
GetByIDRead(p) ==
  /\ pc[p] = "g_read"
  /\ IF arg[p].ID \in DOMAIN users
       THEN /\ ret' = [ret EXCEPT ![p] =
                         Ret("GetByID", "", <<GetByIDResult(users[arg[p].ID])>>)]
            /\ Complete(p, "GetByID", arg[p].ID, "", {Seen(heap[users[arg[p].ID]])})
       ELSE /\ ret' = [ret EXCEPT ![p] = Ret("GetByID", ErrNotFound, <<>>)]
            /\ Complete(p, "GetByID", arg[p].ID, ErrNotFound, {})
  /\ readers' = readers \ {p}
  /\ pc' = [pc EXCEPT ![p] = "idle"]
  /\ arg' = [arg EXCEPT ![p] = Nil]
  /\ UNCHANGED <<front, callers, store, writer, world, id, now, nmut, nops, hist>>

\* ---- List ----
ListCall(p) ==
  /\ Call(p)
  /\ pc' = [pc EXCEPT ![p] = "l_rlock"]
  /\ ret' = [ret EXCEPT ![p] = NoRet]
  /\ Invoke(p)
  /\ UNCHANGED <<front, callers, store, lock, world, locals, nmut, hist>>

\* r.mu.RLock()
ListRLock(p) ==
  /\ pc[p] = "l_rlock"
  /\ CanRLock
  /\ readers' = readers \cup {p}
  /\ pc' = [pc EXCEPT ![p] = "l_read"]
  /\ UNCHANGED <<front, callers, store, writer, world, locals, ret, nmut, nops, hist, events>>

\* The orders in which `range r.users` may visit the keys.
Orders(S) == {o \in [1..Cardinality(S) -> S] : Range(o) = S}

\* The element List appends for the cell at address a:
\* copy := *u; result = append(result, &copy)
ListElem(a) == Own(heap[a])

\* for _, u := range r.users { ... }; return result, nil (and the deferred RUnlock)
ListRead(p) ==
  /\ pc[p] = "l_read"
  /\ \E o \in Orders(DOMAIN users) :
       ret' = [ret EXCEPT ![p] =
                 Ret("List", "", [k \in DOMAIN o |-> ListElem(users[o[k]])])]
  /\ Complete(p, "List", Nil, "", {Seen(heap[users[k]]) : k \in DOMAIN users})
  /\ readers' = readers \ {p}
  /\ pc' = [pc EXCEPT ![p] = "idle"]
  /\ UNCHANGED <<front, callers, store, writer, world, locals, nmut, nops, hist>>

\* ---- Update ----
\* user == nil check, callers' entry into Update.
UpdateCall(p, u) ==
  /\ Call(p)
  /\ Pass(p, u)
  /\ IF u = Nil
       THEN /\ ret' = [ret EXCEPT ![p] = Ret("Update", ErrNilUser, <<>>)]
            /\ InvokeComplete(p, "Update", Nil, ErrNilUser)
            /\ UNCHANGED <<pc, arg>>
       ELSE /\ pc' = [pc EXCEPT ![p] = "u_lock"]
            /\ arg' = [arg EXCEPT ![p] = u]
            /\ ret' = [ret EXCEPT ![p] = NoRet]
            /\ Invoke(p)
  /\ UNCHANGED <<front, store, lock, world, id, now, nmut, hist>>

\* r.mu.Lock()
UpdateLock(p) ==
  /\ pc[p] = "u_lock"
  /\ CanLock
  /\ writer' = p
  /\ pc' = [pc EXCEPT ![p] = "u_write"]
  /\ UNCHANGED <<front, callers, store, readers, world, locals, ret, nmut, nops, hist, events>>

\* existing.Name = user.Name; existing.Email = user.Email;
\* existing.UpdatedAt = time.Now().UTC()
UpdateFields(existing, user, t) ==
  [existing EXCEPT !.Name = user.Name, !.Email = user.Email, !.UpdatedAt = t]

\* An Update that inserts the record when its id is not a key.
UpdateWriteUpsert(p) ==
  /\ pc[p] = "u_write"
  /\ \E t \in 1..MaxClock :
       /\ TimeNow(t)
       /\ IF arg[p].ID \in DOMAIN users
            THEN /\ heap' = [heap EXCEPT ![users[arg[p].ID]] =
                               UpdateFields(@, arg[p], t)]
                 /\ users' = users
            ELSE /\ heap' = Append(heap, [arg[p] EXCEPT !.CreatedAt = t, !.UpdatedAt = t])
                 /\ users' = (arg[p].ID :> (Len(heap) + 1)) @@ users
  /\ updated' = updated \cup {arg[p].ID}
  /\ written' = (arg[p].ID :> [Name |-> arg[p].Name, Email |-> arg[p].Email])
                   @@ written
  /\ pc' = [pc EXCEPT ![p] = "u_copy"]
  /\ UNCHANGED <<front, callers, autoIncID, lock, env, arg, id, now, ret, nmut, nops,
                 issued, returned, deleted, floor, overlapped, events>>

\* existing, ok := r.users[user.ID]; if !ok { return NotFound }; the writes
UpdateWrite(p) ==
  /\ pc[p] = "u_write"
  /\ IF arg[p].ID \in DOMAIN users
       THEN /\ \E t \in 1..MaxClock :
                 /\ TimeNow(t)
                 /\ heap' = [heap EXCEPT ![users[arg[p].ID]] =
                               UpdateFields(@, arg[p], t)]
            /\ updated' = updated \cup {arg[p].ID}
            /\ written' = (arg[p].ID :> [Name |-> arg[p].Name, Email |-> arg[p].Email])
                             @@ written
            /\ pc' = [pc EXCEPT ![p] = "u_copy"]
            /\ UNCHANGED <<writer, ret, arg, events>>
       ELSE /\ ret' = [ret EXCEPT ![p] = Ret("Update", ErrNotFound, <<>>)]
            /\ Complete(p, "Update", arg[p], ErrNotFound, {})
            /\ writer' = 0
            /\ pc' = [pc EXCEPT ![p] = "idle"]
            /\ arg' = [arg EXCEPT ![p] = Nil]
            /\ UNCHANGED <<heap, updated, written, clock>>
  /\ UNCHANGED <<front, callers, autoIncID, users, readers, env, id, now, nmut, nops,
                 issued, returned, deleted, floor, overlapped>>

\* The pointer Update returns for the cell at address a:
\* copy := *existing; return &copy
UpdateResult(a) == Own(heap[a])

\* return &copy, nil (and the deferred Unlock)
UpdateCopy(p) ==
  /\ pc[p] = "u_copy"
  /\ ret' = [ret EXCEPT ![p] = Ret("Update", "", <<UpdateResult(users[arg[p].ID])>>)]
  /\ Complete(p, "Update", arg[p].ID, "", {Seen(heap[users[arg[p].ID]])})
  /\ writer' = 0
  /\ pc' = [pc EXCEPT ![p] = "idle"]
  /\ arg' = [arg EXCEPT ![p] = Nil]
  /\ UNCHANGED <<front, callers, store, readers, world, id, now, nmut, nops, hist>>

\* ---- Delete ----
DeleteCall(p, i) ==
  /\ Call(p)
  /\ pc' = [pc EXCEPT ![p] = "d_lock"]
  /\ arg' = [arg EXCEPT ![p] = Key(i)]
  /\ ret' = [ret EXCEPT ![p] = NoRet]
  /\ Invoke(p)
  /\ UNCHANGED <<front, callers, store, lock, world, id, now, nmut, hist>>

\* r.mu.Lock()
DeleteLock(p) ==
  /\ pc[p] = "d_lock"
  /\ CanLock
  /\ writer' = p
  /\ pc' = [pc EXCEPT ![p] = "d_body"]
  /\ UNCHANGED <<front, callers, store, readers, world, locals, ret, nmut, nops, hist, events>>

\* A delete that leaves the entry in the map.
MapDeleteKeeps(m, i) == m

\* The map after delete(r.users, i).
MapDelete(m, i) == [k \in DOMAIN m \ {i} |-> m[k]]

\* A Delete that returns NotFound without releasing the lock.
DeleteBodyKeepsLock(p) ==
  /\ pc[p] = "d_body"
  /\ IF arg[p].ID \in DOMAIN users
       THEN /\ users' = MapDelete(users, arg[p].ID)
            /\ deleted' = deleted \cup {arg[p].ID}
            /\ ret' = [ret EXCEPT ![p] = Ret("Delete", "", <<>>)]
            /\ Complete(p, "Delete", arg[p].ID, "", {})
            /\ writer' = 0
       ELSE /\ ret' = [ret EXCEPT ![p] = Ret("Delete", ErrNotFound, <<>>)]
            /\ Complete(p, "Delete", arg[p].ID, ErrNotFound, {})
            /\ UNCHANGED <<users, deleted, writer>>
  /\ pc' = [pc EXCEPT ![p] = "idle"]
  /\ arg' = [arg EXCEPT ![p] = Nil]
  /\ UNCHANGED <<front, callers, autoIncID, heap, readers, world, id, now, nmut, nops,
                 issued, returned, updated, written, floor, overlapped>>

\* if _, ok := r.users[id]; !ok { return NotFound }; delete(r.users, id)
DeleteBody(p) ==
  /\ pc[p] = "d_body"
  /\ IF arg[p].ID \in DOMAIN users
       THEN /\ users' = MapDelete(users, arg[p].ID)
            /\ deleted' = deleted \cup {arg[p].ID}
            /\ ret' = [ret EXCEPT ![p] = Ret("Delete", "", <<>>)]
            /\ Complete(p, "Delete", arg[p].ID, "", {})
       ELSE /\ ret' = [ret EXCEPT ![p] = Ret("Delete", ErrNotFound, <<>>)]
            /\ Complete(p, "Delete", arg[p].ID, ErrNotFound, {})
            /\ UNCHANGED <<users, deleted>>
  /\ writer' = 0
  /\ pc' = [pc EXCEPT ![p] = "idle"]
  /\ arg' = [arg EXCEPT ![p] = Nil]
  /\ UNCHANGED <<front, callers, autoIncID, heap, readers, world, id, now, nmut, nops,
                 issued, returned, updated, written, floor, overlapped>>

\* ---- callers ----
\* A caller writes v into field f of the k-th record of its last result:
\* through the pointer when it points to a heap cell, into its own copy otherwise.
MutateAt(p, k, f, v) ==
  /\ pc[p] = "idle"
  /\ nmut < MaxMut
  /\ k \in DOMAIN ret[p].ptrs
  /\ Deref(ret[p].ptrs[k])[f] # v
  /\ nmut' = nmut + 1
  /\ IF ret[p].ptrs[k].alias
       THEN /\ heap' = [heap EXCEPT ![ret[p].ptrs[k].addr][f] = v]
            /\ UNCHANGED ret
       ELSE /\ ret' = [ret EXCEPT ![p].ptrs[k].rec[f] = v]
            /\ UNCHANGED heap
  /\ UNCHANGED <<front, callers, autoIncID, users, lock, world, pc, locals, nops, hist, events>>

Mutate(p) ==
  \E k \in DOMAIN ret[p].ptrs : \E f \in Fields : \E v \in MutVals(f) :
    MutateAt(p, k, f, v)

\* The caller writes field f of the record it passed to its last call; a
\* stored cell that is that record changes with it.
MutateInputAt(p, f, v) ==
  /\ pc[p] = "idle"
  /\ input[p] # Nil
  /\ nmut < MaxMut
  /\ input[p][f] # v
  /\ nmut' = nmut + 1
  /\ input' = [input EXCEPT ![p][f] = v]
  /\ heap' = [a \in DOMAIN heap |->
               IF <<a, p>> \in kept THEN [heap[a] EXCEPT ![f] = v] ELSE heap[a]]
  /\ UNCHANGED <<front, kept, autoIncID, users, lock, world, pc, locals, ret, nops,
                 hist, events>>

MutateInput(p) ==
  \E f \in Fields : \E v \in MutVals(f) : MutateInputAt(p, f, v)

\* ---- strings ----
\* A string is a sequence of characters.
Whitespace == {" ", "\t"}

RECURSIVE TrimLeft(_)
TrimLeft(s) ==
  IF s # <<>> /\ Head(s) \in Whitespace THEN TrimLeft(Tail(s)) ELSE s

RECURSIVE TrimRight(_)
TrimRight(s) ==
  IF s # <<>> /\ s[Len(s)] \in Whitespace
    THEN TrimRight(SubSeq(s, 1, Len(s) - 1))
    ELSE s

\* strings.TrimSpace
TrimSpace(s) == TrimRight(TrimLeft(s))

DigitChars == <<"0", "1", "2", "3", "4", "5", "6", "7", "8", "9">>

DigitVal(c) == CHOOSE d \in 0..9 : DigitChars[d + 1] = c

RECURSIVE ParseDigits(_, _)
ParseDigits(s, acc) ==
  IF s = <<>> THEN [err |-> FALSE, val |-> acc]
  ELSE IF Head(s) \notin Range(DigitChars) THEN [err |-> TRUE, val |-> 0]
  ELSE ParseDigits(Tail(s), acc * 10 + DigitVal(Head(s)))

\* strconv.ParseInt(idStr, 10, 64), for the lengths of path the clients send
ParseInt(s) ==
  IF s = <<>> THEN [err |-> TRUE, val |-> 0]
  ELSE IF Head(s) \in {"+", "-"}
    THEN IF Tail(s) = <<>> THEN [err |-> TRUE, val |-> 0]
         ELSE LET r == ParseDigits(Tail(s), 0)
              IN IF Head(s) = "-" THEN [r EXCEPT !.val = 0 - r.val] ELSE r
  ELSE ParseDigits(s, 0)

\* ---- UserService ----
SvcErr(e)  == [err |-> e,  user |-> Nil]

\* A Service that hands the repository no record.
SvcUserNil(u) == [err |-> "", user |-> Nil]

SvcUser(u) == [err |-> "", user |-> u]

\* A CreateUser that checks its arguments without trimming them.
ServiceCreateUserUntrimmed(name, email) ==
  IF name = <<>> \/ email = <<>>
    THEN SvcErr(ErrRequired)
    ELSE SvcUser(User(0, name, email, 0, 0))

\* UserService.CreateUser up to its call of repo.Create: the error it
\* returns, or the record it passes to the Store.
ServiceCreateUser(name, email) ==
  IF TrimSpace(name) = <<>> \/ TrimSpace(email) = <<>>
    THEN SvcErr(ErrRequired)
    ELSE SvcUser(User(0, TrimSpace(name), TrimSpace(email), 0, 0))

\* A service that checks its arguments without trimming them.
ServiceUpdateUserUntrimmed(i, name, email) ==
  IF name = <<>> \/ email = <<>>
    THEN SvcErr(ErrRequired)
    ELSE SvcUser(User(i, name, email, 0, 0))

\* UserService.UpdateUser up to its call of repo.Update.
ServiceUpdateUser(i, name, email) ==
  IF TrimSpace(name) = <<>> \/ TrimSpace(email) = <<>>
    THEN SvcErr(ErrRequired)
    ELSE SvcUser(User(i, TrimSpace(name), TrimSpace(email), 0, 0))

\* ---- UserHandler ----
StatusOK == 200
StatusCreated == 201
StatusNoContent == 204
StatusBadRequest == 400
StatusNotFound == 404
StatusInternalServerError == 500

PostUsers  == "POST /api/v1/users"
GetUsers   == "GET /api/v1/users"
GetUserID  == "GET /api/v1/users/{id}"
PutUserID  == "PUT /api/v1/users/{id}"
DelUserID  == "DELETE /api/v1/users/{id}"

\* Request bodies: text that is not JSON, or a JSON object with some of the
\* fields name and email.  Each client pads its strings with whitespace.
Chr(p) == DigitChars[p + 1]

BadJSON == [json |-> FALSE, fields |-> <<>>]
Object(f) == [json |-> TRUE, fields |-> f]

Bodies(p) ==
  { BadJSON,
    Object([name |-> <<" ", "n", Chr(p), "\t">>, email |-> <<"e", Chr(p), " ">>]),
    Object([name |-> <<" ", "\t">>, email |-> <<"e", Chr(p)>>]),
    Object([name |-> <<"n", Chr(p)>>]) }

\* The {id} segments the clients send.
Paths == {<<"x">>, <<"-", "1">>} \cup {<<DigitChars[i + 1]>> : i \in IDs}

\* json.NewDecoder(r.Body).Decode(&req): a field the object lacks keeps its
\* zero value, the empty string.
Decode(body) ==
  [err   |-> ~body.json,
   Name  |-> IF body.json /\ "name" \in DOMAIN body.fields THEN body.fields.name ELSE <<>>,
   Email |-> IF body.json /\ "email" \in DOMAIN body.fields THEN body.fields.email ELSE <<>>]

\* A parseID that takes whatever it cannot parse for id 0.
parseIDLenient(path) ==
  IF ParseInt(path).err THEN [err |-> FALSE, val |-> 0] ELSE ParseInt(path)

\* parseID
parseID(path) == ParseInt(path)

Request(route, op, a) == [route |-> route, op |-> op, arg |-> a]

\* writeJSON(w, status, map[string]string{"error": msg}); failed is the error
\* the Service returned, if it was the Service that failed.
ErrorResponse(route, status, msg, failed) ==
  [route |-> route, status |-> status, error |-> msg, failed |-> failed,
   kind |-> "error", users |-> <<>>]

\* w.WriteHeader(status): a response without a body
Response(route, status) ==
  [route |-> route, status |-> status, error |-> "", failed |-> "",
   kind |-> "", users |-> <<>>]

\* writeJSON(w, status, v): v is one record ("user") or a list ("users")
JSONResponse(route, status, kind, v) ==
  [route |-> route, status |-> status, error |-> "", failed |-> "",
   kind |-> kind, users |-> v]

\* Requests accepted whose Store call has not begun.
Waiting(p) == req[p] # NoReq /\ pc[p] = "idle" /\ ret[p] = NoRet

\* A handler begins to serve a request.
Serve(p) ==
  /\ p \in env.procs
  /\ pc[p] = "idle"
  /\ req[p] = NoReq
  /\ nops + Cardinality({q \in Procs : Waiting(q)}) < env.maxops

\* The handler answers at once, without a call of the Store.
Reject(p, r) ==
  /\ resp' = [resp EXCEPT ![p] = r]
  /\ nops' = nops + 1
  /\ UNCHANGED <<req, ret>>

\* The handler goes on to the Store call rq.
Accept(p, rq) ==
  /\ req' = [req EXCEPT ![p] = rq]
  /\ ret' = [ret EXCEPT ![p] = NoRet]
  /\ UNCHANGED <<resp, nops>>

\* UserHandler.CreateUser up to repo.Create
HandleCreateUser(p, body) ==
  /\ Serve(p)
  /\ LET d == Decode(body)
         r == ServiceCreateUser(d.Name, d.Email)
     IN IF d.err
          THEN Reject(p, ErrorResponse(PostUsers, StatusBadRequest, "invalid JSON", ""))
          ELSE IF r.err # ""
            THEN Reject(p, ErrorResponse(PostUsers, StatusBadRequest, r.err, r.err))
            ELSE Accept(p, Request(PostUsers, "Create", r.user))
  /\ UNCHANGED <<callers, store, lock, world, pc, locals, nmut, hist, events>>

\* UserHandler.GetUser up to repo.GetByID
HandleGetUser(p, path) ==
  /\ Serve(p)
  /\ IF parseID(path).err
       THEN Reject(p, ErrorResponse(GetUserID, StatusBadRequest, "invalid id", ""))
       ELSE Accept(p, Request(GetUserID, "GetByID", parseID(path).val))
  /\ UNCHANGED <<callers, store, lock, world, pc, locals, nmut, hist, events>>

\* UserHandler.ListUsers up to repo.List
HandleListUsers(p) ==
  /\ Serve(p)
  /\ Accept(p, Request(GetUsers, "List", Nil))
  /\ UNCHANGED <<callers, store, lock, world, pc, locals, nmut, hist, events>>

\* UserHandler.UpdateUser up to repo.Update
HandleUpdateUser(p, path, body) ==
  /\ Serve(p)
  /\ LET i == parseID(path)
         d == Decode(body)
         r == ServiceUpdateUser(i.val, d.Name, d.Email)
     IN IF i.err
          THEN Reject(p, ErrorResponse(PutUserID, StatusBadRequest, "invalid id", ""))
          ELSE IF d.err
            THEN Reject(p, ErrorResponse(PutUserID, StatusBadRequest, "invalid JSON", ""))
            ELSE IF r.err # ""
              THEN Reject(p, ErrorResponse(PutUserID, StatusBadRequest, r.err, r.err))
              ELSE Accept(p, Request(PutUserID, "Update", r.user))
  /\ UNCHANGED <<callers, store, lock, world, pc, locals, nmut, hist, events>>

\* UserHandler.DeleteUser up to repo.Delete
HandleDeleteUser(p, path) ==
  /\ Serve(p)
  /\ IF parseID(path).err
       THEN Reject(p, ErrorResponse(DelUserID, StatusBadRequest, "invalid id", ""))
       ELSE Accept(p, Request(DelUserID, "Delete", parseID(path).val))
  /\ UNCHANGED <<callers, store, lock, world, pc, locals, nmut, hist, events>>

\* The Service's call of the Store: s.repo.Create / GetByID / List / Update / Delete
RepoCall(p) ==
  /\ Waiting(p)
  /\ \/ req[p].op = "Create"  /\ CreateCall(p, req[p].arg)
     \/ req[p].op = "GetByID" /\ GetByIDCall(p, req[p].arg)
     \/ req[p].op = "List"    /\ ListCall(p)
     \/ req[p].op = "Update"  /\ UpdateCall(p, req[p].arg)
     \/ req[p].op = "Delete"  /\ DeleteCall(p, req[p].arg)

\* The errors a failing implementation of domain.UserRepository returns.
Failures == {"repository error", "connection refused"}

\* The Service's call of a repository that fails: nothing is stored.
RepoFail(p, msg) ==
  /\ Waiting(p)
  /\ ret' = [ret EXCEPT ![p] = Ret(req[p].op, msg, <<>>)]
  /\ nops' = nops + 1
  /\ UNCHANGED <<front, callers, store, lock, world, pc, locals, nmut, hist, events>>

\* A Service that reports a missing record in words of its own.
ServiceReturnTranslates(r) ==
  IF r.err = ErrNotFound THEN [r EXCEPT !.err = "no such user"] ELSE r

\* What a Service method returns of its repository call r:
\* return s.repo.Create(...) / GetByID / List / Update / Delete
ServiceReturn(r) == r

\* The status a handler answers a failed Service call with.
ErrorStatus(route) ==
  CASE route = PostUsers -> StatusBadRequest
    [] route = GetUserID -> StatusNotFound
    [] route = GetUsers  -> StatusInternalServerError
    [] route = PutUserID -> StatusBadRequest
    [] route = DelUserID -> StatusNotFound

\* The error text a handler answers a failed Service call with.
ErrorText(route, err) ==
  CASE route \in {PostUsers, PutUserID} -> err
    [] route \in {GetUserID, DelUserID} -> "user not found"
    [] route = GetUsers -> "internal error"

\* Handlers that answer every success with 200.
SuccessStatusAlwaysOK(route) == StatusOK

\* The status a handler answers a successful Service call with.
SuccessStatus(route) ==
  CASE route = PostUsers -> StatusCreated
    [] route = DelUserID -> StatusNoContent
    [] OTHER -> StatusOK

\* The body a handler answers a successful Service call r with.
SuccessBody(route, status, r) ==
  CASE route = DelUserID -> Response(route, status)
    [] route = GetUsers ->
         JSONResponse(route, status, "users", [k \in DOMAIN r.ptrs |-> Deref(r.ptrs[k])])
    [] OTHER -> JSONResponse(route, status, "user", <<Deref(r.ptrs[1])>>)

\* The rest of the handler, from the return of the Service call.
Respond(p) ==
  /\ req[p] # NoReq
  /\ pc[p] = "idle"
  /\ ret[p].op # ""
  /\ LET r == ServiceReturn(ret[p])
     IN resp' = [resp EXCEPT ![p] =
                   IF r.err # ""
                     THEN ErrorResponse(req[p].route, ErrorStatus(req[p].route),
                                        ErrorText(req[p].route, r.err), r.err)
                     ELSE SuccessBody(req[p].route, SuccessStatus(req[p].route), r)]
  /\ req' = [req EXCEPT ![p] = NoReq]
  /\ UNCHANGED <<callers, store, lock, world, pc, locals, ret, nmut, nops, hist, events>>


Next ==
  \/ \E p \in Procs : \E u \in CreateInputs(p) : CreateCall(p, u)
  \/ \E p \in Procs : CreateAlloc(p)
  \/ \E p \in Procs : CreateNow(p)
  \/ \E p \in Procs : CreateLock(p)
  \/ \E p \in Procs : CreateInsert(p)
  \/ \E p \in Procs : \E i \in IDs : GetByIDCall(p, i)
  \/ \E p \in Procs : GetByIDRLock(p)
  \/ \E p \in Procs : GetByIDRead(p)
  \/ \E p \in Procs : ListCall(p)
  \/ \E p \in Procs : ListRLock(p)
  \/ \E p \in Procs : ListRead(p)
  \/ \E p \in Procs : \E u \in UpdateInputs(p) : UpdateCall(p, u)
  \/ \E p \in Procs : UpdateLock(p)
  \/ \E p \in Procs : UpdateWrite(p)
  \/ \E p \in Procs : UpdateCopy(p)
  \/ \E p \in Procs : \E i \in IDs : DeleteCall(p, i)
  \/ \E p \in Procs : DeleteLock(p)
  \/ \E p \in Procs : DeleteBody(p)
  \/ \E p \in Procs : Mutate(p)

Spec == Init /\ [][Next]_vars

\* The concurrent workload with every call logged.
SpecLogged == InitLogged /\ [][Next]_vars

\* The goroutines are scheduled fairly and sync.RWMutex grants a lock to
\* every goroutine that keeps asking for it; callers owe no further call.
\* Each of these steps moves the goroutine on, that is, changes pc.
Fairness ==
  \A p \in Procs :
    /\ WF_pc(CreateAlloc(p)) /\ WF_pc(CreateNow(p))
    /\ SF_pc(CreateLock(p)) /\ WF_pc(CreateInsert(p))
    /\ SF_pc(GetByIDRLock(p)) /\ WF_pc(GetByIDRead(p))
    /\ SF_pc(ListRLock(p)) /\ WF_pc(ListRead(p))
    /\ SF_pc(UpdateLock(p)) /\ WF_pc(UpdateWrite(p)) /\ WF_pc(UpdateCopy(p))
    /\ SF_pc(DeleteLock(p)) /\ WF_pc(DeleteBody(p))

SpecFair == InitFair /\ [][Next]_vars /\ Fairness

\* The callers hold on to the records they passed and write to them.
NextHeld == Next \/ \E p \in Procs : MutateInput(p)

SpecHeld == InitHeld /\ [][NextHeld]_vars

\* The Store behind the Service and the HTTP handlers.
NextHTTP ==
  \/ \E p \in Procs : \E b \in Bodies(p) : HandleCreateUser(p, b)
  \/ \E p \in Procs : \E i \in Paths : HandleGetUser(p, i)
  \/ \E p \in Procs : HandleListUsers(p)
  \/ \E p \in Procs : \E i \in Paths : \E b \in Bodies(p) : HandleUpdateUser(p, i, b)
  \/ \E p \in Procs : \E i \in Paths : HandleDeleteUser(p, i)
  \/ \E p \in Procs : RepoCall(p)
  \/ \E p \in Procs : \E msg \in Failures : RepoFail(p, msg)
  \/ \E p \in Procs : CreateAlloc(p)
  \/ \E p \in Procs : CreateNow(p)
  \/ \E p \in Procs : CreateLock(p)
  \/ \E p \in Procs : CreateInsert(p)
  \/ \E p \in Procs : GetByIDRLock(p)
  \/ \E p \in Procs : GetByIDRead(p)
  \/ \E p \in Procs : ListRLock(p)
  \/ \E p \in Procs : ListRead(p)
  \/ \E p \in Procs : UpdateLock(p)
  \/ \E p \in Procs : UpdateWrite(p)
  \/ \E p \in Procs : UpdateCopy(p)
  \/ \E p \in Procs : DeleteLock(p)
  \/ \E p \in Procs : DeleteBody(p)
  \/ \E p \in Procs : Respond(p)

SpecHTTP == InitHTTP /\ [][NextHTTP]_vars

(***************************************************************************)
(* The sequential Store of section 4.1: Create allocates the next id and   *)
(* inserts the record in one step.  Callers observe ids, names and emails. *)
(***************************************************************************)
SeqStore == [counter |-> 0, recs |-> <<>>]

SeqResp(s, e) ==
  CASE e.op = "Create" ->
         IF e.arg = Nil
           THEN [err |-> ErrNilUser, vals |-> {}]
           ELSE [err |-> "",
                 vals |-> {[ID |-> s.counter + 1, Name |-> e.arg.Name,
                            Email |-> e.arg.Email]}]
    [] e.op = "GetByID" ->
         IF e.arg \in DOMAIN s.recs
           THEN [err |-> "", vals |-> {s.recs[e.arg]}]
           ELSE [err |-> ErrNotFound, vals |-> {}]
    [] e.op = "List" -> [err |-> "", vals |-> Range(s.recs)]
    [] e.op = "Update" ->
         IF e.arg = Nil
           THEN [err |-> ErrNilUser, vals |-> {}]
           ELSE IF e.arg.ID \in DOMAIN s.recs
                  THEN [err |-> "",
                        vals |-> {[s.recs[e.arg.ID] EXCEPT !.Name = e.arg.Name,
                                                           !.Email = e.arg.Email]}]
                  ELSE [err |-> ErrNotFound, vals |-> {}]
    [] OTHER ->
         IF e.arg \in DOMAIN s.recs
           THEN [err |-> "", vals |-> {}]
           ELSE [err |-> ErrNotFound, vals |-> {}]

SeqApply(s, e) ==
  CASE e.op = "Create" /\ e.arg # Nil ->
         [counter |-> s.counter + 1,
          recs |-> ((s.counter + 1) :>
                      [ID |-> s.counter + 1, Name |-> e.arg.Name, Email |-> e.arg.Email])
                   @@ s.recs]
    [] e.op = "Update" /\ e.arg # Nil /\ e.arg.ID \in DOMAIN s.recs ->
         [s EXCEPT !.recs[e.arg.ID].Name = e.arg.Name,
                   !.recs[e.arg.ID].Email = e.arg.Email]
    [] e.op = "Delete" /\ e.arg \in DOMAIN s.recs ->
         [s EXCEPT !.recs = [k \in DOMAIN s.recs \ {e.arg} |-> s.recs[k]]]
    [] OTHER -> s

\* The sequential Store after the first k calls of L taken in the order o.
RECURSIVE SeqRun(_, _, _)
SeqRun(L, o, k) == IF k = 0 THEN SeqStore ELSE SeqApply(SeqRun(L, o, k - 1), L[o[k]])

\* L is linearizable: some total order of its calls keeps every call that
\* returned before another began ahead of it, and gives every call the result
\* the sequential Store gives it.
Linearizable(L) ==
  \E o \in Orders(DOMAIN L) :
    /\ \A a, b \in DOMAIN o : a < b => ~(L[o[b]].ret < L[o[a]].inv)
    /\ \A k \in DOMAIN o :
         SeqResp(SeqRun(L, o, k - 1), L[o[k]]) = [err |-> L[o[k]].err, vals |-> L[o[k]].vals]

AllIdle == \A p \in Procs : pc[p] = "idle"

IssuedIds == {issued[k].id : k \in DOMAIN issued}

(***************************************************************************)
(* The claims.                                                             *)
(***************************************************************************)

\* C1: the ids returned by the successful Creates of one Store are pairwise
\* different, for every interleaving of concurrent Creates and whatever
\* Updates and Deletes run in between.
C1_CreateIdsDistinct ==
  \A i, j \in DOMAIN issued : i # j => issued[i].id # issued[j].id

C1_Witness == overlapped /\ Len(issued) >= 2

\* C2: a caller's write into the record Create returned never changes what
\* the Store holds (the returned record is a separate copy).
C2_CreateResultIsCopy ==
  [][\A p \in Procs :
       (ret[p].op = "Create" /\ Mutate(p)) => StoreView' = StoreView]_vars

\* C3: a caller's write into a record returned by GetByID, List or Update
\* changes neither the Store's map, nor any stored entry, nor any other
\* record a caller was handed.
C3_CopiesIndependent ==
  [][\A p \in Procs : \A k \in DOMAIN ret[p].ptrs : \A f \in Fields : \A v \in MutVals(f) :
       (ret[p].op \in {"GetByID", "List", "Update"} /\ MutateAt(p, k, f, v)) =>
         /\ users' = users
         /\ heap' = heap
         /\ \A q \in Procs : \A j \in DOMAIN ret[q].ptrs :
              <<q, j>> # <<p, k>> => ret'[q].ptrs[j] = ret[q].ptrs[j]]_vars

C3_Witness ==
  \E p, q \in Procs :
    /\ p # q
    /\ ret[p].op = "GetByID" /\ ret[p].err = ""
    /\ ret[q].op \in {"GetByID", "List"} /\ ret[q].ptrs # <<>>
    /\ ret[p].ptrs[1].rec.Name = <<"x", 0>>
    /\ ret[q].ptrs[1].rec.ID = ret[p].ptrs[1].rec.ID
    /\ ret[q].ptrs[1].rec.Name # <<"x", 0>>
    /\ \A k \in DOMAIN users : heap[users[k]].Name # <<"x", 0>>

\* C4: every history of completed calls is linearizable against the
\* sequential Store in which Create allocates the next id and inserts the
\* record atomically.
C4_Linearizable == AllIdle => Linearizable(log)

\* C4 without any caller write: the same statement for the histories in
\* which no caller wrote into a record it was handed.
C4_LinearizableUntouched == (AllIdle /\ nmut = 0) => Linearizable(log)

\* C5: when a successful Create returned before another successful Create
\* was invoked, the first one's id is smaller than the second one's.
C5_MonotonicIssuance ==
  \A k \in DOMAIN issued : \A j \in issued[k].before : j < issued[k].id

C5_Witness ==
  \E k \in DOMAIN issued : issued[k].before # {} /\ deleted # {}

\* C6: a GetByID(id) that reads after the Create that returned id, with no
\* Update or Delete of id so far, succeeds and returns the record Create
\* returned.
C6_ReadAfterWrite ==
  [][\A p \in Procs :
       (GetByIDRead(p) /\ arg[p].ID \in DOMAIN returned /\ arg[p].ID \notin (updated \cup deleted)) =>
         /\ ret'[p].err = ""
         /\ Deref(ret'[p].ptrs[1]) = returned[arg[p].ID]]_vars

C8_NoInsertionLost ==
  [][\A p \in Procs :
       (ListRead(p) /\ deleted = {} /\ \A q \in Procs : ~InCreate(q)) =>
         /\ Len(ret'[p].ptrs) = Len(issued)
         /\ {Deref(ret'[p].ptrs[k]).ID : k \in DOMAIN ret'[p].ptrs} = IssuedIds]_vars

\* C9: when no two Creates overlap, the k-th successful Create returns id k,
\* whatever other calls run in between.
C9_SequentialIds ==
  ~overlapped => \A k \in DOMAIN issued : issued[k].id = k

C9_Witness ==
  /\ ~overlapped
  /\ Len(issued) = 3
  /\ 1 \in deleted
  /\ issued[3].id = 3
  /\ 1 \in issued[3].before

\* C10: a successful Update leaves the stored entry's id and createdAt as
\* they were and never moves its updatedAt backwards.
C10_UpdateFrame ==
  [][\A p \in Procs :
       (UpdateWrite(p) /\ arg[p].ID \in DOMAIN users) =>
         LET a == users[arg[p].ID]
         IN /\ heap'[a].ID = heap[a].ID
            /\ heap'[a].CreatedAt = heap[a].CreatedAt
            /\ heap'[a].UpdatedAt >= heap[a].UpdatedAt]_vars

\* The goroutines whose Create holds an id it has not yet inserted.
Allocated == {p \in Procs : pc[p] \in {"c_now", "c_lock", "c_insert"}}

\* C11: every stored record has updatedAt >= createdAt, and createdAt =
\* updatedAt as long as it has never been successfully updated.
C11_Timestamps ==
  \A k \in DOMAIN users :
    /\ heap[users[k]].UpdatedAt >= heap[users[k]].CreatedAt
    /\ k \notin updated => heap[users[k]].UpdatedAt = heap[users[k]].CreatedAt

\* C12: an Update whose id is not a key of the map fails with NotFound and
\* leaves the counter, the map and every stored record as they were.
C12_UpdateMissing ==
  [][\A p \in Procs :
       (UpdateWrite(p) /\ arg[p].ID \notin DOMAIN users) =>
         /\ ret'[p] = Ret("Update", ErrNotFound, <<>>)
         /\ store' = store]_vars

C12_Witness ==
  \E p \in Procs :
    /\ ret[p] = Ret("Update", ErrNotFound, <<>>)
    /\ DOMAIN users # {}
    /\ \A k \in DOMAIN users : k \notin updated

\* C13: Create(nil) and Update(nil) fail with 'nil user' and change neither
\* the map, nor a record, nor the counter; the counter counts exactly the
\* Creates that were given a record, so a failed Create consumes no id.
C13_NilRejected ==
  /\ [](autoIncID = Len(issued) + Cardinality(Allocated))
  /\ [][\A p \in Procs :
          /\ CreateCall(p, Nil) =>
               ret'[p] = Ret("Create", ErrNilUser, <<>>) /\ store' = store /\ pc' = pc
          /\ UpdateCall(p, Nil) =>
               ret'[p] = Ret("Update", ErrNilUser, <<>>) /\ store' = store /\ pc' = pc]_vars

C13_Witness ==
  /\ ret[1] = Ret("Create", ErrNilUser, <<>>)
  /\ ret[2] = Ret("Update", ErrNilUser, <<>>)
  /\ Len(issued) = 1
  /\ autoIncID = 1

\* C14: GetByID and Delete fail with NotFound exactly when the id is not a
\* key of the map while they hold the lock; a failed Delete changes nothing,
\* a successful Delete removes the entry keyed by the id and no other.
C14_NotFoundExact ==
  [][\A p \in Procs :
       /\ GetByIDRead(p) =>
            /\ ret'[p].err = (IF arg[p].ID \in DOMAIN users THEN "" ELSE ErrNotFound)
            /\ store' = store
       /\ DeleteBody(p) =>
            /\ ret'[p].err = (IF arg[p].ID \in DOMAIN users THEN "" ELSE ErrNotFound)
            /\ arg[p].ID \notin DOMAIN users => store' = store
            /\ arg[p].ID \in DOMAIN users =>
                 /\ DOMAIN users' = DOMAIN users \ {arg[p].ID}
                 /\ \A k \in DOMAIN users' : users'[k] = users[k]
                 /\ heap' = heap
                 /\ autoIncID' = autoIncID]_vars

C14_Witness ==
  /\ deleted # {}
  /\ DOMAIN users # {}
  /\ \E p \in Procs : ret[p] = Ret("Delete", ErrNotFound, <<>>)

\* C15: List never fails and returns one private copy per key of the map:
\* the ids of the returned records are the keys, and the returned records
\* are the stored records field by field; an empty map gives an empty list.
C15_ListExact ==
  [][\A p \in Procs :
       ListRead(p) =>
         /\ ret'[p].err = ""
         /\ Len(ret'[p].ptrs) = Cardinality(DOMAIN users)
         /\ \A k \in DOMAIN ret'[p].ptrs : ~ret'[p].ptrs[k].alias
         /\ {ret'[p].ptrs[k].rec : k \in DOMAIN ret'[p].ptrs} =
              {heap[users[i]] : i \in DOMAIN users}
         /\ {ret'[p].ptrs[k].rec.ID : k \in DOMAIN ret'[p].ptrs} = DOMAIN users]_vars

\* C16: the counter changes only in Create's allocation, by exactly one;
\* no step of GetByID or List changes the counter, the map or a record, and
\* no step of Update or Delete changes the counter.
C16_CounterFrame ==
  [][/\ autoIncID' # autoIncID =>
          /\ autoIncID' = autoIncID + 1
          /\ \E p \in Procs : pc[p] = "c_alloc" /\ pc'[p] = "c_now"
     /\ \A p \in Procs :
          /\ ((pc[p] \in {"g_rlock", "g_read", "l_rlock", "l_read"} \/
               pc'[p] \in {"g_rlock", "l_rlock"}) /\ pc'[p] # pc[p]) => store' = store
          /\ ((pc[p] \in {"u_lock", "u_write", "u_copy", "d_lock", "d_body"} \/
               pc'[p] \in {"u_lock", "d_lock"}) /\ pc'[p] # pc[p]) =>
                 autoIncID' = autoIncID
          /\ (\E u \in UpdateInputs(p) : UpdateCall(p, u)) => autoIncID' = autoIncID]_vars

C16_Witness ==
  \E p, q \in Procs :
    /\ ret[p].op = "Update" /\ ret[p].err = ""
    /\ ret[q].op = "Delete" /\ ret[q].err = ErrNotFound
    /\ autoIncID = 1

\* C17: a successful Update stores exactly its input's name and email and
\* returns the stored record as it then is; a GetByID of that id reading
\* after it, with no later Update or Delete of the id, shows that name and
\* email.
C17_UpdateVisible ==
  [][\A p \in Procs :
       /\ (UpdateWrite(p) /\ arg[p].ID \in DOMAIN users) =>
            /\ heap'[users[arg[p].ID]].Name = arg[p].Name
            /\ heap'[users[arg[p].ID]].Email = arg[p].Email
       /\ UpdateCopy(p) =>
            /\ ret'[p].ptrs[1] = Own(heap[users[arg[p].ID]])
            /\ ret'[p].ptrs[1].rec.Name = arg[p].Name
            /\ ret'[p].ptrs[1].rec.Email = arg[p].Email
       /\ (GetByIDRead(p) /\ arg[p].ID \in DOMAIN users /\ arg[p].ID \in DOMAIN written) =>
            /\ ret'[p].ptrs[1].rec.Name = written[arg[p].ID].Name
            /\ ret'[p].ptrs[1].rec.Email = written[arg[p].ID].Email]_vars

\* C18: the record Create stores and returns carries the id the Store
\* allocated and the time the Store read, whatever id and times the input
\* carried, and the input's name and email.
C18_CreateOverwrites ==
  [][\A p \in Procs :
       CreateInsert(p) =>
         /\ id[p] \in 1..autoIncID
         /\ users'[id[p]] = Len(heap) + 1
         /\ heap'[Len(heap) + 1] =
              User(id[p], arg[p].Name, arg[p].Email, now[p], now[p])
         /\ (Deref(ret[p].ptrs[1]))' = heap'[Len(heap) + 1]]_vars

C18_Witness ==
  \E p \in Procs :
    /\ ret[p].op = "Create" /\ ret[p].err = ""
    /\ Deref(ret[p].ptrs[1]).ID = 2
    /\ Deref(ret[p].ptrs[1]).CreatedAt \in 1..MaxClock
    /\ 2 \in DOMAIN users /\ heap[users[2]].ID = 2

\* C19: whenever the Service fails with NotFound on a route that takes an
\* id (GET, PUT, DELETE /api/v1/users/{id}), the handler answers 404.
C19_NotFoundIs404 ==
  \A p \in Procs :
    (resp[p].route \in {GetUserID, PutUserID, DelUserID} /\ resp[p].failed = ErrNotFound) =>
      resp[p].status = StatusNotFound

\* A string with nothing to trim that is not empty.
Trimmed(str) == str # <<>> /\ TrimSpace(str) = str

\* C20: CreateUser and UpdateUser trim name and email; when either is then
\* empty they fail with 'name and email are required' and no Store call is
\* made (map, records and counter unchanged), for UpdateUser whether or not
\* the id is a key; otherwise the Store is given the trimmed strings.
C20_ValidationFirst ==
  /\ [](\A k \in DOMAIN users :
          Trimmed(heap[users[k]].Name) /\ Trimmed(heap[users[k]].Email))
  /\ [][\A p \in Procs : \A b \in Bodies(p) :
          LET d == Decode(b)
              blank == TrimSpace(d.Name) = <<>> \/ TrimSpace(d.Email) = <<>>
              rejected == /\ resp'[p].failed = ErrRequired
                          /\ resp'[p].error = ErrRequired
                          /\ req'[p] = NoReq
                          /\ store' = store
                          /\ pc' = pc
          IN /\ (HandleCreateUser(p, b) /\ ~d.err) =>
                  IF blank THEN rejected
                  ELSE req'[p].arg = User(0, TrimSpace(d.Name), TrimSpace(d.Email), 0, 0)
             /\ \A i \in Paths :
                  (HandleUpdateUser(p, i, b) /\ ~parseID(i).err /\ ~d.err) =>
                    IF blank THEN rejected
                    ELSE req'[p].arg = User(parseID(i).val, TrimSpace(d.Name),
                                            TrimSpace(d.Email), 0, 0)]_vars

C20_Witness ==
  \E p, q \in Procs :
    /\ resp[p] = ErrorResponse(PutUserID, StatusBadRequest, ErrRequired, ErrRequired)
    /\ resp[q] = ErrorResponse(PostUsers, StatusBadRequest, ErrRequired, ErrRequired)
    /\ DOMAIN users = {}
    /\ autoIncID = 0

\* C21: with the Store changed only through the Service, every stored
\* record has a non-empty name and a non-empty email without leading or
\* trailing whitespace.
C21_StoredTrimmed ==
  \A k \in DOMAIN users :
    /\ heap[users[k]].Name # <<>> /\ heap[users[k]].Email # <<>>
    /\ heap[users[k]].Name = TrimSpace(heap[users[k]].Name)
    /\ heap[users[k]].Email = TrimSpace(heap[users[k]].Email)

C21_Witness ==
  \E p \in Procs : \E k \in DOMAIN users :
    /\ k \in updated
    /\ heap[users[k]].Name = <<"n", Chr(p)>>
    /\ heap[users[k]].Email = <<"e", Chr(p)>>

\* C22: through the Service no Store operation ever returns 'nil user',
\* and no Store operation is ever called without a record.
C22_NilUnreachable ==
  /\ [](\A p \in Procs : ret[p].err # ErrNilUser)
  /\ [][\A p \in Procs :
          (RepoCall(p) /\ req[p].op \in {"Create", "Update"}) => req[p].arg # Nil]_vars

C22_Witness ==
  \E p, q \in Procs :
    /\ ret[p].op = "Update" /\ ret[p].err = ErrNotFound
    /\ ret[q].op = "Create" /\ ret[q].err = ""

\* C23: what the handler receives from the Service is exactly what the
\* repository returned: the same error, NotFound and every other failure
\* included, and on success the same records.
C23_PassedUnchanged ==
  [][\A p \in Procs :
       Respond(p) =>
         /\ resp'[p].failed = ret[p].err
         /\ (ret[p].err = "" /\ req[p].route # DelUserID) =>
              resp'[p].users = [k \in DOMAIN ret[p].ptrs |-> Deref(ret[p].ptrs[k])]]_vars

C23_Witness ==
  \E p, q \in Procs :
    /\ resp[p].failed = ErrNotFound
    /\ resp[q].failed \in Failures
    /\ resp[q].route \in {PostUsers, PutUserID}

\* C24: a Service failure that is neither the Validation failure nor
\* NotFound is answered with a 5xx status on every route.
C24_UnexpectedIs5xx ==
  \A p \in Procs :
    resp[p].failed \notin {"", ErrRequired, ErrNotFound} => resp[p].status >= 500

\* The statuses the interface table lists for a route.
Table(route) ==
  CASE route = PostUsers -> [ok |-> 201, errs |-> {400}]
    [] route = GetUsers  -> [ok |-> 200, errs |-> {500}]
    [] route = GetUserID -> [ok |-> 200, errs |-> {400, 404}]
    [] route = PutUserID -> [ok |-> 200, errs |-> {400}]
    [] route = DelUserID -> [ok |-> 204, errs |-> {400, 404}]

\* C25: every response carries a status the table lists for its route; it
\* is the route's success status exactly when the Service call succeeded,
\* and the 204 of DELETE has no body.
C25_StatusTable ==
  /\ [](\A p \in Procs :
          resp[p].route # "" =>
            /\ resp[p].status \in {Table(resp[p].route).ok} \cup Table(resp[p].route).errs
            /\ (resp[p].route = DelUserID /\ resp[p].status = 204) =>
                 resp[p].kind = "" /\ resp[p].users = <<>>)
  /\ [][\A p \in Procs :
          /\ Respond(p) =>
               (resp'[p].status = Table(req[p].route).ok <=> ret[p].err = "")
          /\ (req[p] = NoReq /\ resp'[p] # resp[p]) =>
               resp'[p].status \in Table(resp'[p].route).errs]_vars

C25_Witness ==
  \E p, q \in Procs :
    /\ resp[p].route = DelUserID /\ resp[p].status = 204
    /\ resp[q].route = PutUserID /\ resp[q].status = 400 /\ resp[q].failed = ErrNotFound

\* The handler answered at once with 400 and msg, and nothing else moved.
Refused(p, route, msg) ==
  /\ resp'[p] = ErrorResponse(route, 400, msg, "")
  /\ req'[p] = NoReq
  /\ store' = store
  /\ pc' = pc
  /\ ret' = ret

C27_NoLeak ==
  \A p, q \in Procs :
    (/\ resp[p].route = resp[q].route
     /\ resp[p].failed \notin {"", ErrRequired, ErrNotFound}
     /\ resp[q].failed \notin {"", ErrRequired, ErrNotFound}) =>
      /\ resp[p].status = resp[q].status
      /\ resp[p].error = resp[q].error
      /\ resp[p].users = resp[q].users

\* The goroutines inside a write, a read critical section.
WriteCS == {p \in Procs : pc[p] \in {"c_insert", "u_write", "u_copy", "d_body"}}
ReadCS  == {p \in Procs : pc[p] \in {"g_read", "l_read"}}

\* C28: at most one goroutine is inside a write critical section and then
\* none is inside a read critical section; a goroutine inside a critical
\* section holds the lock of its kind; the map changes only in a step of
\* the goroutine holding the write lock.
C28_LockDiscipline ==
  /\ [](/\ Cardinality(WriteCS) <= 1
        /\ WriteCS # {} => ReadCS = {}
        /\ \A p \in WriteCS : writer = p /\ readers = {}
        /\ \A p \in ReadCS : p \in readers /\ writer = 0
        /\ writer # 0 => WriteCS = {writer}
        /\ readers = ReadCS)
  /\ [][users' # users => \E p \in WriteCS : writer = p /\ pc'[p] = "idle"]_vars

C28_Witness == ReadCS = Procs /\ DOMAIN users # {}

\* C29: under fair scheduling and fair lock grants every operation that
\* was invoked returns, and when no operation is in progress the lock is
\* free, whichever way the operations returned.
C29_Returns ==
  /\ [](AllIdle => writer = 0 /\ readers = {})
  /\ \A p \in Procs : (pc[p] # "idle") ~> (pc[p] = "idle")

C29_Witness ==
  \E p, q \in Procs :
    /\ ret[p] = Ret("Update", ErrNotFound, <<>>)
    /\ ret[q] = Ret("Delete", ErrNotFound, <<>>)
    /\ AllIdle /\ writer = 0 /\ readers = {}

\* C30: records enter the map in the order of their ids: of two successful
\* Creates the one that inserted first has the smaller id.
C30_InsertionOrder ==
  \A i, j \in DOMAIN issued : i < j => issued[i].id < issued[j].id

\* The ids allocated to Creates that have not inserted their record yet.
Reserved == {id[q] : q \in Allocated}

\* The name and email of the calls the callers make.
CallPairs ==
  {<<u.Name, u.Email>> :
     u \in UNION {(CreateInputs(q) \cup UpdateInputs(q)) \ {Nil} : q \in Procs}}

\* r is a whole record stored under key k.
Whole(r, k) ==
  /\ r.ID = k
  /\ r.CreatedAt # 0 /\ r.UpdatedAt # 0
  /\ <<r.Name, r.Email>> \in CallPairs

\* C31: while a Create holds an id it has not inserted, GetByID, Update and
\* Delete of that id fail with NotFound and List has no record for it; every
\* record GetByID or List returns has the id asked for (the key it is stored
\* under), both timestamps set and the name and email of one call.
C31_ReservedInvisible ==
  /\ [](Reserved \cap DOMAIN users = {})
  /\ [][\A p \in Procs :
          /\ (GetByIDRead(p) /\ arg[p].ID \in Reserved) =>
               ret'[p] = Ret("GetByID", ErrNotFound, <<>>)
          /\ (UpdateWrite(p) /\ arg[p].ID \in Reserved) =>
               ret'[p] = Ret("Update", ErrNotFound, <<>>)
          /\ (DeleteBody(p) /\ arg[p].ID \in Reserved) =>
               ret'[p] = Ret("Delete", ErrNotFound, <<>>)
          /\ (GetByIDRead(p) /\ arg[p].ID \in DOMAIN users) =>
               Whole(ret'[p].ptrs[1].rec, arg[p].ID)
          /\ ListRead(p) =>
               /\ Len(ret'[p].ptrs) = Cardinality(DOMAIN users)
               /\ \A j \in DOMAIN ret'[p].ptrs :
                    \E k \in DOMAIN users :
                      /\ ret'[p].ptrs[j].rec = heap[users[k]]
                      /\ Whole(ret'[p].ptrs[j].rec, k)]_vars

\* C32: a Create that has passed the nil check can always take its id and
\* read the clock, whoever holds the lock; only the step that takes the
\* lock waits for it.
C32_AllocNeverWaits ==
  \A p \in Procs :
    /\ pc[p] = "c_alloc" => ENABLED CreateAlloc(p)
    /\ pc[p] = "c_now"   => ENABLED CreateNow(p)
    /\ pc[p] = "c_lock"  => (ENABLED CreateLock(p) <=> (writer = 0 /\ readers = {}))

C32_Witness ==
  \E p, q, r \in Procs :
    /\ pc[p] = "c_alloc"
    /\ q # p /\ r # p
    /\ (writer = q \/ readers = {r})
    /\ autoIncID >= 1

\* C33: an id is deleted successfully at most once: a Delete either finds
\* the id a key and removes it, or fails with NotFound; an Update either
\* succeeds on a key or fails with NotFound; once deleted the id is absent.
C33_DeleteOnce ==
  /\ [](deleted \cap DOMAIN users = {})
  /\ [][\A p \in Procs :
          /\ DeleteBody(p) =>
               /\ arg[p].ID \notin DOMAIN users'
               /\ \/ /\ ret'[p] = Ret("Delete", "", <<>>)
                     /\ arg[p].ID \in DOMAIN users /\ arg[p].ID \notin deleted
                  \/ /\ ret'[p] = Ret("Delete", ErrNotFound, <<>>)
                     /\ arg[p].ID \notin DOMAIN users
          /\ UpdateWrite(p) =>
               \/ arg[p].ID \in DOMAIN users /\ arg[p].ID \notin deleted /\ pc'[p] = "u_copy"
               \/ arg[p].ID \notin DOMAIN users /\ ret'[p] = Ret("Update", ErrNotFound, <<>>)
          /\ UpdateCopy(p) => ret'[p].err = "" /\ arg[p].ID \in DOMAIN users]_vars

C33_Witness ==
  \E p, q \in Procs :
    /\ p # q
    /\ pc[p] = "d_body" /\ pc[q] \in {"d_lock", "u_lock"}
    /\ arg[p].ID = arg[q].ID
    /\ arg[p].ID \in DOMAIN users

\* The name, email and updatedAt of a record.
Version(r) == <<r.Name, r.Email, r.UpdatedAt>>

\* C34: the name, email and updatedAt of a stored record change only in one
\* step of one Update, which writes all three from its own input and its own
\* reading of the clock; GetByID, List and Update return the stored record
\* as it is.
C34_UpdateAtomic ==
  [][/\ \A k \in DOMAIN users \cap DOMAIN users' :
          Version(heap'[users'[k]]) # Version(heap[users[k]]) =>
            \E p \in Procs :
              /\ pc[p] = "u_write" /\ pc'[p] = "u_copy" /\ arg[p].ID = k
              /\ Version(heap'[users'[k]]) = <<arg[p].Name, arg[p].Email, clock'>>
     /\ \A p \in Procs :
          /\ (GetByIDRead(p) /\ arg[p].ID \in DOMAIN users) =>
               ret'[p].ptrs[1].rec = heap[users[arg[p].ID]]
          /\ UpdateCopy(p) => ret'[p].ptrs[1].rec = heap[users[arg[p].ID]]
          /\ ListRead(p) =>
               {ret'[p].ptrs[j].rec : j \in DOMAIN ret'[p].ptrs} =
                 {heap[users[k]] : k \in DOMAIN users}]_vars

\* C35: of two stored records the one with the smaller id was not created
\* later (stated for the states no caller write has led to).
C35_IdOrderIsTimeOrder ==
  nmut = 0 =>
    \A a, b \in DOMAIN users :
      a < b => heap[users[a]].CreatedAt <= heap[users[b]].CreatedAt

\* C37: the record stored under key k has id k, every key lies between 1
\* and the counter, and the counter never decreases.
C37_KeysAreIds ==
  /\ [](\A k \in DOMAIN users : heap[users[k]].ID = k /\ k \in 1..autoIncID)
  /\ [][autoIncID' >= autoIncID]_vars

\* C36: a caller's write to the record it passed to Create or Update, made
\* after the call has returned, changes nothing in the Store: not the map,
\* not a stored record, so not what GetByID and List return either.
C36_InputNotKept ==
  [][\A p \in Procs : MutateInput(p) => (users' = users /\ heap' = heap)]_vars

C36_Witness ==
  \E p \in Procs : \E k \in DOMAIN users :
    /\ input[p] # Nil
    /\ input[p].Name = <<"x", 0>>
    /\ heap[users[k]].Name \in {<<"name", p>>, <<"new", p>>}

====
